---- MODULE Spec2Model ----
(***************************************************************************)
(* Batch ingestion engine of discomap: BatchManager (master jobs, batch    *)
(* jobs, global semaphore), ETLPipeline (file-level semaphore, download -> *)
(* parse -> load per URL) and ParquetCopyImporter (parallel COPY imports   *)
(* over one session).                                                      *)
(*                                                                         *)
(* The program runs on one asyncio event loop: the code between two awaits *)
(* that really suspend runs atomically, so one action is one such stretch. *)
(***************************************************************************)
EXTENDS Integers, Sequences, FiniteSets, TLC

\* ------------------------------------------------------------------ bounds
MaxJobs == 2          \* submit_file calls per run
MaxTotalUrls == 2     \* URLs over all submit_file calls of a run
MaxSubmitUrls == 3    \* URLs of a submit_file call when only the split is run
MaxRunUrls == 4       \* URLs of a direct run_batch_from_urls call
MaxImportFiles == 3   \* file_paths handed to import_parquet_files_batch
MaxRows == 3          \* rows handed to one loader call
MaxTextLen == 4       \* characters of an uploaded URL file
MaxPostUrls == 2      \* URLs in the body of a POST /async/batch
MaxReadJobs == 1      \* submit_file calls of a run with status reads, or to its end
MaxReadUrls == 2      \* URLs over these submit_file calls
MaxLoads == 2         \* times a loader call is made on the same rows
MaxStamps == 3        \* rows of a parsed parquet file
MaxSiblingUrls == 2   \* URLs of a run_batch_from_urls call on SiblingUrls
MaxDfRows == 2        \* rows of a data frame handed to parse_measurements

\* ------------------------------------------------------- program constants
\* ETLPipeline(max_concurrent_files=3) as built by _process_batch
K == 3
\* get_engine defaults
pool_size == 5
max_overflow == 10

\* BatchManager instances the code constructs (max_concurrent_batches,
\* batch_size): api/v1/etl_async_file.py and services/etl/api.py
ConstructedManagers ==
    { [max_concurrent_batches |-> 3,  batch_size |-> 50],
      [max_concurrent_batches |-> 10, batch_size |-> 50] }

\* Constructor arguments explored: small values for which the semaphore and
\* the batch size bind within the bounds, and the services/etl/api.py
\* instance (within the bounds the etl_async_file.py instance, whose cap of 3
\* is never exceeded by at most MaxJobs batches, behaves exactly like it).
ManagerConfigs ==
    { [max_concurrent_batches |-> 10, batch_size |-> 50],
      [max_concurrent_batches |-> 1, batch_size |-> 1],
      [max_concurrent_batches |-> 2, batch_size |-> 1],
      [max_concurrent_batches |-> 1, batch_size |-> 2] }

\* max_concurrent_files arguments explored for a direct ETLPipeline
ConcurrentFilesArgs == 1..K

\* URLs: the last path segment is stem + (".parquet" if parquet)
Url(n) == [ dir |-> "PT", stem |-> n, parquet |-> (n % 2 = 1) ]

\* a URL list of n distinct URLs
UrlList(n) == [ i \in 1..n |-> Url(i) ]

\* URL lists with repetitions, for the partition of submit_file
URLS == { Url(1), Url(2) }

\* URLs of files processed side by side: those of URLS and one of another
\* directory whose last path segment is that of Url(1)
SiblingUrls == URLS \cup { [ dir |-> "ES", stem |-> 1, parquet |-> TRUE ] }

\* JobStatus
PENDING == "pending"
RUNNING == "running"
COMPLETED == "completed"
FAILED == "failed"

VARIABLES
    manager,      \* BatchManager: max_concurrent_batches, batch_size
    semaphore,    \* BatchManager._semaphore: free slots
    jobs,         \* BatchManager.jobs, in creation order (id = position)
    requests,     \* the urls argument of each submit_file call, same order
    pipelines,    \* the run_batch_from_urls calls made so far, in call order
    scratch,      \* file names present in the downloader's output_dir
    importer,     \* one ParquetCopyImporter.import_parquet_files_batch call
    loader,       \* one call of a measurement loader and its copy calls
    table,        \* committed rows of airquality.measurements
    http,         \* the last response of an upload or status endpoint
    import_jobs,  \* api/routes/import_routes.py: jobs, with their task
    etl_jobs,     \* api/v1/etl_async.py: _jobs, with their task
    stamps,       \* timestamps on their way from the file to the COPY text
    parser,       \* one parse_measurements call on a data frame
    wire          \* one row on its way through bulk_copy into the COPY text

vars == <<manager, semaphore, jobs, requests, pipelines, scratch, importer,
          loader, table, http, import_jobs, etl_jobs, stamps, parser,
          wire>>

\* the state of the batch manager, its pipelines and the importer
ingest == <<manager, semaphore, jobs, requests, pipelines, scratch,
            importer>>

\* the endpoints' state: last response and the registries of the routers
web == <<http, import_jobs, etl_jobs>>

\* what is known of the file being parsed and written
parsing == <<stamps, parser, wire>>

\* the state outside the batch manager, its pipelines and the importer
others == <<loader, table, web, parsing>>

\* ------------------------------------------------------------ pure helpers
Min(a, b) == IF a < b THEN a ELSE b

\* Python s[lo:hi] for 0 <= lo
Slice(s, lo, hi) == SubSeq(s, lo + 1, Min(hi, Len(s)))

\* Python range(0, n, step) for step >= 1
Range0(n, step) == { i \in 0..(n - 1) : i % step = 0 }

RECURSIVE SumSeq(_)
SumSeq(s) == IF s = <<>> THEN 0 ELSE Head(s) + SumSeq(Tail(s))

RECURSIVE Flatten(_)
Flatten(ss) == IF ss = <<>> THEN <<>> ELSE Head(ss) \o Flatten(Tail(ss))

SeqsUpTo(S, n) == UNION { [1..k -> S] : k \in 0..n }

\* --------------------------------------------------------------- job model
\* BatchJob; pipeline is the local variable of _process_batch (0: not built)
BatchJob(batch_urls) ==
    [ urls |-> batch_urls, status |-> PENDING,
      started_at |-> FALSE, completed_at |-> FALSE,
      succeeded |-> 0, failed |-> 0, error |-> "none", pipeline |-> 0 ]

\* mutant of MakeBatches: the slice ends one element early
MakeBatches_ShortSlice(urls, size) ==
    LET starts == Range0(Len(urls), size)
    IN  [ k \in 1..Cardinality(starts) |->
            BatchJob(Slice(urls, (k - 1) * size, (k - 1) * size + size - 1)) ]

\* submit_file: for i in range(0, len(urls), batch_size): urls[i:i+batch_size]
MakeBatches(urls, size) ==
    LET starts == Range0(Len(urls), size)
    IN  [ k \in 1..Cardinality(starts) |->
            BatchJob(Slice(urls, (k - 1) * size, (k - 1) * size + size)) ]

MasterJob(urls, size) ==
    LET batches == MakeBatches(urls, size)
    IN  [ total_urls |-> Len(urls), total_batches |-> Len(batches),
          batch_size |-> size, batches |-> batches,
          started_at |-> FALSE, completed_at |-> FALSE ]

\* mutant of MasterStatus: any failed batch makes the job failed
MasterStatus_AnyFailed(job) ==
    LET st == [ b \in 1..Len(job.batches) |-> job.batches[b].status ]
    IN  IF Len(job.batches) = 0 THEN "created"
        ELSE IF \A b \in DOMAIN st : st[b] = COMPLETED THEN "completed"
        ELSE IF \E b \in DOMAIN st : st[b] = FAILED THEN "failed"
        ELSE IF \E b \in DOMAIN st : st[b] = RUNNING THEN "running"
        ELSE IF \E b \in DOMAIN st : st[b] = COMPLETED THEN "running"
        ELSE "pending"

\* MasterJob.status
MasterStatus(job) ==
    LET st == [ b \in 1..Len(job.batches) |-> job.batches[b].status ]
    IN  IF Len(job.batches) = 0 THEN "created"
        ELSE IF \A b \in DOMAIN st : st[b] = COMPLETED THEN "completed"
        ELSE IF \A b \in DOMAIN st : st[b] = FAILED THEN "failed"
        ELSE IF \E b \in DOMAIN st : st[b] = RUNNING THEN "running"
        ELSE IF \E b \in DOMAIN st : st[b] = COMPLETED \/ st[b] = FAILED
             THEN "running"
        ELSE "pending"

\* MasterJob.progress
Progress(job) ==
    LET B == job.batches
        n(s) == Cardinality({ b \in 1..Len(B) : B[b].status = s })
    IN  [ batches_completed |-> n(COMPLETED), batches_failed |-> n(FAILED),
          batches_running |-> n(RUNNING), batches_pending |-> n(PENDING),
          urls_succeeded |-> SumSeq([ b \in 1..Len(B) |-> B[b].succeeded ]),
          urls_failed |-> SumSeq([ b \in 1..Len(B) |-> B[b].failed ]) ]

\* ---------------------------------------------------------- pipeline model
\* ParquetDownloader.download: filename = url.split("/")[-1], plus
\* ".parquet" when it does not end with it
FileName(url) == [ stem |-> url.stem, ext |-> "parquet" ]

\* one process_with_semaphore task: where it is, how many times it has
\* called run_from_url, what it returned (success, error) and whether a
\* bulk copy of its load was rejected
NewTask(url) ==
    [ url |-> url, pc |-> "wait", attempts |-> 0, success |-> FALSE,
      error |-> "none", copy_rejected |-> FALSE ]

\* run_batch_from_urls up to its gather: semaphore and one task per URL
NewPipeline(urls, max_concurrent_files) ==
    [ max_concurrent_files |-> max_concurrent_files,
      semaphore |-> max_concurrent_files,
      tasks |-> [ i \in 1..Len(urls) |-> NewTask(urls[i]) ],
      returned |-> FALSE ]

AllDone(p) == \A i \in 1..Len(p.tasks) : p.tasks[i].pc = "done"

\* mutant of Aggregate: files_processed is incremented for every result
Aggregate_CountsEveryResult(p) ==
    [ files_processed |-> Len(p.tasks),
      errors |-> Cardinality({ i \in 1..Len(p.tasks) : ~p.tasks[i].success }) ]

\* run_batch_from_urls: the aggregation loop over the gathered results
Aggregate(p) ==
    [ files_processed |->
          Cardinality({ i \in 1..Len(p.tasks) : p.tasks[i].success }),
      errors |-> Cardinality({ i \in 1..Len(p.tasks) : ~p.tasks[i].success }) ]

\* ------------------------------------------------ ParquetCopyImporter model
\* max_workers arguments explored (default 4; the unit tests use 1 and 2)
MaxWorkersArgs == {1, 2, 4}

\* no import_parquet_files_batch call made yet
IdleImporter ==
    [ pc |-> "idle", max_workers |-> 0, i |-> 0, tasks |-> <<>>,
      total_records |-> 0 ]

\* the chunk file_paths[i:i + chunk_size] as positions of file_paths
Chunk(n, i, chunk_size) == (i + 1)..Min(i + chunk_size, n)

\* tasks = [self.import_parquet_file(path) for path in chunk]
StartChunk(tasks, chunk) ==
    [ t \in 1..Len(tasks) |->
        IF t \in chunk THEN [tasks[t] EXCEPT !.pc = "new"] ELSE tasks[t] ]

\* the import_parquet_file tasks suspended inside bulk_copy_measurements,
\* all of them on self.session
SessionUsers == { t \in 1..Len(importer.tasks) : importer.tasks[t].pc = "copy" }

\* ------------------------------------------------------------ loader model
\* a measurement row: key is its primary key (time, sampling_point_id),
\* value its other columns
Row(k, v) == [ key |-> k, value |-> v ]

\* rows explored: two with the same key and two with keys of their own
ROWS == { Row(1, 1), Row(1, 2), Row(2, 1), Row(3, 1) }

\* batch_size arguments explored (the row cap of one copy call)
BatchSizeArgs == 1..3

Range(s) == { s[i] : i \in 1..Len(s) }

Keys(rows) == { r.key : r \in rows }

\* no loader call made yet. entry: "list" / "generator" for the two branches
\* of bulk_copy_measurements, "pipeline" for _load_to_database; i: records
\* consumed; calls: the row lists of the copy calls issued; errors:
\* exceptions of repository calls; pending: rows copied in the open
\* transaction; before / initial: the rows stored when this call / the first
\* of its repetitions began
IdleLoader ==
    [ pc |-> "idle", entry |-> "none", upsert_mode |-> FALSE,
      autocommit |-> FALSE, records |-> <<>>, batch_size |-> 1, i |-> 0,
      calls |-> <<>>, errors |-> 0, total |-> 0, raised |-> FALSE,
      pending |-> {}, aborted |-> FALSE, before |-> {}, initial |-> {},
      loads |-> 0, again |-> FALSE ]

\* the rows the loader's session reads back
Stored == table \cup loader.pending

\* the generator branch of bulk_copy_measurements from record i on:
\* batch.append(record), and the copy call once len(batch) >= batch_size;
\* what is left at the end of the records is the remaining batch
RECURSIVE FillBatch(_, _, _, _)
FillBatch(batch, records, i, batch_size) ==
    IF i >= Len(records) THEN batch
    ELSE LET filled == Append(batch, records[i + 1])
         IN  IF Len(filled) >= batch_size THEN filled
             ELSE FillBatch(filled, records, i + 1, batch_size)

\* mutant of NextBatch: the batch misses its last row
NextBatch_ShortSlice(l) ==
    IF l.entry = "generator"
    THEN FillBatch(<<>>, l.records, l.i, l.batch_size - 1)
    ELSE Slice(l.records, l.i, l.i + l.batch_size - 1)

\* the rows of the next copy call: records_list[i:i + batch_size] and
\* measurements[i:i + self.batch_size], or the batch the generator fills
NextBatch(l) ==
    IF l.entry = "generator"
    THEN FillBatch(<<>>, l.records, l.i, l.batch_size)
    ELSE Slice(l.records, l.i, l.i + l.batch_size)

\* the loop variable after the copy call
NextIndex(l, batch) ==
    IF l.entry = "generator" THEN l.i + Len(batch) ELSE l.i + l.batch_size

\* PostgreSQL COPY into a table with a primary key: the statement fails as
\* a whole when two of its rows share a key or a key is already stored
CopyAccepted(batch, stored) ==
    /\ \A x, y \in 1..Len(batch) : x # y => batch[x].key # batch[y].key
    /\ Keys(Range(batch)) \cap Keys(stored) = {}

\* a loader call begins
NewLoad(entry, records, batch_size, upsert_mode, autocommit) ==
    [IdleLoader EXCEPT !.pc = "copy", !.entry = entry,
                       !.upsert_mode = upsert_mode,
                       !.autocommit = autocommit, !.records = records,
                       !.batch_size = batch_size, !.before = Stored,
                       !.initial = Stored, !.loads = loader.loads + 1]

\* the copy call succeeded: its rows are stored at once when the connection
\* is not in a transaction, else they wait for the commit
Copied(l, batch) ==
    [l EXCEPT !.calls = Append(@, batch), !.total = @ + Len(batch),
              !.i = NextIndex(l, batch),
              !.pending = IF l.autocommit THEN @ ELSE @ \cup Range(batch)]

\* ------------------------------------------------------------- API model
\* characters of an uploaded file: a URL character, the comment mark,
\* white space and the line break
Chars == { "u", "#", " ", "\n" }

\* str.splitlines(): the lines between line breaks, without a last empty one
RECURSIVE SplitLines(_, _)
SplitLines(text, line) ==
    IF text = <<>> THEN (IF line = <<>> THEN <<>> ELSE <<line>>)
    ELSE IF Head(text) = "\n" THEN <<line>> \o SplitLines(Tail(text), <<>>)
    ELSE SplitLines(Tail(text), Append(line, Head(text)))

RECURSIVE LStrip(_)
LStrip(line) ==
    IF line # <<>> /\ Head(line) = " " THEN LStrip(Tail(line)) ELSE line

RECURSIVE RStrip(_)
RStrip(line) ==
    IF line # <<>> /\ line[Len(line)] = " "
    THEN RStrip(SubSeq(line, 1, Len(line) - 1)) ELSE line

\* str.strip()
Strip(line) == RStrip(LStrip(line))

\* the filter of the list comprehension of upload_url_file
IsUrlLine(line) == Strip(line) # <<>> /\ Head(Strip(line)) # "#"

RECURSIVE StripKept(_)
StripKept(lines) ==
    IF lines = <<>> THEN <<>>
    ELSE IF IsUrlLine(Head(lines))
         THEN <<Strip(Head(lines))>> \o StripKept(Tail(lines))
         ELSE StripKept(Tail(lines))

\* urls = [line.strip() for line in text.splitlines()
\*         if line.strip() and not line.strip().startswith('#')]
ParseUrls(text) == StripKept(SplitLines(text, <<>>))

\* the endpoint a BatchManager instance serves: POST /async/file of
\* api/v1/etl_async_file.py (the router main.py mounts) or of
\* services/etl/api.py
UploadEndpoint(m) ==
    IF m.max_concurrent_batches = 3 THEN "v1/etl_async_file"
    ELSE "services/etl/api"

\* BatchETLRequest.validate_urls: at most 50 URLs
MaxBatchUrls == 50

\* no request answered yet
NoResponse ==
    [ endpoint |-> "none", status_code |-> 0, decodable |-> TRUE,
      text |-> <<>>, urls |-> <<>>, job_id |-> 0, total_urls |-> 0,
      total_batches |-> 0 ]

\* the answer to a request: HTTPException(status_code) or the response
\* model with its status code
Response(endpoint, status_code, decodable, text, urls, job) ==
    [ endpoint |-> endpoint, status_code |-> status_code,
      decodable |-> decodable, text |-> text, urls |-> urls,
      job_id |-> job.id, total_urls |-> job.total_urls,
      total_batches |-> job.total_batches ]

NoJob == [ id |-> 0, total_urls |-> 0, total_batches |-> 0 ]

\* ---------------------------------------------------------- timestamp model
\* no file parsed yet
IdleStamps == [ pc |-> "idle", input |-> <<>>, parsed |-> <<>>,
                written |-> <<>> ]

\* wall-clock readings of a timestamp, in hours
Hours == 0..2

\* the timezone of a parquet time column: none, or a fixed offset
TimeZones == {"naive", "+00:00", "+02:00", "-01:00"}

\* hours a timezone is ahead of UTC
UtcOffset(tz) ==
    CASE tz = "+00:00" -> 0
      [] tz = "+02:00" -> 2
      [] tz = "-01:00" -> 0 - 1

\* the instant of a timezone-aware timestamp, in hours of UTC
Instant(stamp) == stamp.wall - UtcOffset(stamp.tz)

\* Series.dt.tz_localize('UTC'): the wall-clock reading is kept and tagged
TzLocalizeUtc(series) ==
    [ i \in 1..Len(series) |-> [ wall |-> series[i].wall, tz |-> "+00:00" ] ]

\* parse_measurements on the time column: a naive column is localized to
\* UTC, a timezone-aware one is kept as it is
ParseTimes(series) ==
    IF series # <<>> /\ series[1].tz = "naive" THEN TzLocalizeUtc(series)
    ELSE series

\* strftime("%Y-%m-%d %H:%M:%S+00") as PostgreSQL reads the text: the
\* wall-clock fields of the value, followed by the literal offset +00
Strftime(stamp) == [ wall |-> stamp.wall, tz |-> "+00:00" ]

\* ------------------------------------------------------------ parser model
\* no data frame parsed yet
IdleParser == [ pc |-> "idle", impl |-> "none", columns |-> {}, df |-> <<>>,
               measurements |-> <<>>, raised |-> FALSE, calls |-> 0,
               before |-> <<>>, result |-> "none" ]

\* the two ParquetParser classes: the one of services/parsers (vectorized,
\* used by services/etl/pipeline.py) and the one of services (row by row,
\* used by services/etl_pipeline.py)
ParserImpls == {"services/parsers/parquet_parser", "services/parquet_parser"}

\* the source columns of the three required inputs, under both namings
TimeColumns == {"DatetimeBegin", "Start"}
SpColumns == {"SamplingPoint", "Samplingpoint"}
PollutantColumns == {"AirPollutantCode", "Pollutant"}

\* the column sets of the data frames parsed: every required input has its
\* first name, its alternative name, or no column
ColumnSets ==
    { t \cup sp \cup p :
        t \in { {c} : c \in TimeColumns } \cup {{}},
        sp \in { {c} : c \in SpColumns } \cup {{}},
        p \in { {c} : c \in PollutantColumns } \cup {{}} }

\* the cells of a row: null, a timestamp, or a non-null value that is not
\* a timestamp (a number, a string pd.to_datetime cannot read)
TimeCells == {"null", "stamp", "other"}
SpCells == {"null", "id"}
PollutantCells == {"null", "code"}

\* the rows a data frame with these columns can hold: the cell of an input
\* that has no column reads as null (row.get of a missing key)
DfRows(columns) ==
    [ time : IF columns \cap TimeColumns = {} THEN {"null"} ELSE TimeCells,
      sp : IF columns \cap SpColumns = {} THEN {"null"} ELSE SpCells,
      pollutant : IF columns \cap PollutantColumns = {} THEN {"null"}
                  ELSE PollutantCells ]

\* the check on the required columns: time_col, sp_col and pollutant_col
\* all name a column of the data frame
HasRequiredColumns(columns) ==
    /\ columns \cap TimeColumns # {}
    /\ columns \cap SpColumns # {}
    /\ columns \cap PollutantColumns # {}

\* notna of the three required cells of a row
RequiredNotNa(row) ==
    row.time # "null" /\ row.sp # "null" /\ row.pollutant # "null"

\* the positions of the rows kept, in data frame order
RECURSIVE ValidPositions(_, _)
ValidPositions(df, i) ==
    IF i > Len(df) THEN <<>>
    ELSE (IF RequiredNotNa(df[i]) THEN <<i>> ELSE <<>>)
         \o ValidPositions(df, i + 1)

\* ParquetParser._parse_datetime: a datetime or Timestamp is returned with
\* its timezone, a string is parsed, and None is returned for a string
\* that cannot be parsed and for a value of any other type
ParseDatetime(value) == IF value = "stamp" THEN "stamp" ELSE "null"

\* the measurement dictionary built from the row at position i
Measurement(df, i, time) ==
    [ row |-> i, time |-> time, sampling_point_id |-> df[i].sp,
      pollutant_code |-> df[i].pollutant ]

\* pd.to_datetime(df_valid[time_col]) raises on a value it cannot read
ToDatetimeRaises(df) ==
    \E i \in 1..Len(df) : RequiredNotNa(df[i]) /\ df[i].time = "other"

\* parse_measurements of the vectorized parser: the valid_mask filter, then
\* the conversion of the columns kept
ParseVectorized(columns, df) ==
    IF ~HasRequiredColumns(columns) THEN <<>>
    ELSE LET kept == ValidPositions(df, 1)
         IN  [ k \in 1..Len(kept) |-> Measurement(df, kept[k], "stamp") ]

\* parse_measurements of the row-by-row parser: a key is set for every
\* required cell that is not null, and the row is appended when the three
\* keys are set
ParseByRow(columns, df) ==
    IF ~HasRequiredColumns(columns) THEN <<>>
    ELSE LET kept == ValidPositions(df, 1)
         IN  [ k \in 1..Len(kept) |->
                 Measurement(df, kept[k], ParseDatetime(df[kept[k]].time)) ]

\* the state after parse_measurements of impl on the data frame
Parsed(impl, columns, df, calls, before) ==
    LET vectorized == impl = "services/parsers/parquet_parser"
        raises == vectorized /\ HasRequiredColumns(columns)
                     /\ ToDatetimeRaises(df)
    IN  [ pc |-> "parsed", impl |-> impl, columns |-> columns, df |-> df,
          measurements |-> IF raises THEN <<>>
                           ELSE IF vectorized THEN ParseVectorized(columns, df)
                           ELSE ParseByRow(columns, df),
          raised |-> raises, calls |-> calls, before |-> before,
          result |-> "none" ]

\* -------------------------------------------------------------- COPY text
\* no row encoded yet
IdleWire == [ pc |-> "idle", m |-> <<>>, line |-> <<>> ]

\* the null sentinel of the COPY text format
NullSentinel == "\\N"

\* the values of a measurement dictionary, written as Python writes them;
\* "None" is a key that is absent or holds None
MeasurementDicts ==
    [ value : {"None", "25.5"},
      unit : {"None", "ug/m3"},
      aggregation_type : {"None", "hour"},
      validity : {"None", "0", "1"},
      validity_flag_id : {"None", "2"},
      verification : {"None", "0", "3"},
      verification_status_id : {"None"},
      data_capture : {"None", "0.0", "95.0"},
      result_time : {"None", "2023-01-02 00:00:00+00"},
      observation_id : {"None", "", "obs-1"} ]

\* bool(x) of Python for the values above: None, 0 and "" are false
Truthy(x) == x \notin {"None", "0", ""}

\* a or b
Or(a, b) == IF Truthy(a) THEN a ELSE b

\* x if x is not None else "\N"
IfNotNone(x) == IF x # "None" THEN x ELSE NullSentinel

\* the fields of the line bulk_copy writes for the row m, in the order of
\* the f-string
CopyLine(m) ==
    << "2023-01-01 00:00:00+00", "sp-1", "8",
       IfNotNone(m.value),
       IfNotNone(m.unit),
       IfNotNone(m.aggregation_type),
       Or(Or(m.validity, m.validity_flag_id), NullSentinel),
       Or(Or(m.verification, m.verification_status_id), NullSentinel),
       IfNotNone(m.data_capture),
       IfNotNone(m.result_time),
       Or(m.observation_id, NullSentinel) >>

\* columns= of copy_to_table
CopyColumns ==
    << "time", "sampling_point_id", "pollutant_code", "value", "unit",
       "aggregation_type", "validity", "verification", "data_capture",
       "result_time", "observation_id" >>

\* ------------------------------------------------------------------- Init
\* a BatchManager built with the arguments m, nothing submitted or called
Constructed(m) ==
    /\ manager = m
    /\ semaphore = m.max_concurrent_batches
    /\ jobs = <<>>
    /\ requests = <<>>
    /\ pipelines = <<>>
    /\ scratch = {}
    /\ importer = IdleImporter
    /\ loader = IdleLoader
    /\ table = {}
    /\ http = NoResponse
    /\ import_jobs = <<>>
    /\ etl_jobs = <<>>
    /\ stamps = IdleStamps
    /\ parser = IdleParser
    /\ wire = IdleWire

Init == \E m \in ManagerConfigs : Constructed(m)

\* the routers' module-level BatchManager instances
InitRouters == \E m \in ConstructedManagers : Constructed(m)

\* ---------------------------------------------------------- BatchManager
TotalSubmitted == SumSeq([ r \in 1..Len(requests) |-> Len(requests[r]) ])

\* mutant of SubmitFile: the call awaits the start of _process_master_job
SubmitFile_Awaits(urls) ==
    /\ Len(jobs) < MaxJobs
    /\ jobs' = Append(jobs, [MasterJob(urls, manager.batch_size)
                               EXCEPT !.started_at = TRUE])
    /\ requests' = Append(requests, urls)
    /\ UNCHANGED <<manager, semaphore, pipelines, scratch, importer, others>>

\* BatchManager.submit_file(urls): split into batches, store the master job,
\* schedule _process_master_job (which has not run yet when it returns)
SubmitFile(urls) ==
    /\ Len(jobs) < MaxJobs
    /\ jobs' = Append(jobs, MasterJob(urls, manager.batch_size))
    /\ requests' = Append(requests, urls)
    /\ UNCHANGED <<manager, semaphore, pipelines, scratch, importer, others>>

\* _process_master_job up to its gather: the tasks created by create_task run
\* in creation order, one _process_batch_safe task per batch is created
StartMasterJob(j) ==
    /\ ~jobs[j].started_at
    /\ \A i \in 1..(j - 1) : jobs[i].started_at
    /\ jobs' = [jobs EXCEPT ![j].started_at = TRUE]
    /\ UNCHANGED <<manager, semaphore, requests, pipelines, scratch, importer, others>>

\* mutant of NextInLine: any waiting batch may get the slot
NextInLine_AnyWaiter(j, b) ==
    /\ jobs[j].started_at
    /\ jobs[j].batches[b].status = PENDING

\* asyncio.Semaphore wakes waiters first in, first out, and the batch tasks
\* reach it in creation order: the next batch to get a slot is the earliest
\* one that is still waiting
NextInLine(j, b) ==
    /\ jobs[j].started_at
    /\ jobs[j].batches[b].status = PENDING
    /\ \A i \in 1..Len(jobs) : \A c \in 1..Len(jobs[i].batches) :
          (jobs[i].started_at /\ jobs[i].batches[c].status = PENDING)
             => (i > j \/ (i = j /\ c >= b))

\* mutant of Acquire: the batch does not wait for a free slot
Acquire_NoWait(j, b) == NextInLine(j, b)

\* async with self._semaphore
Acquire(j, b) == semaphore > 0 /\ NextInLine(j, b)

\* _process_batch_safe + _process_batch up to the gather of
\* run_batch_from_urls: take a slot, mark RUNNING, build the pipeline and
\* create one task per URL
BatchStart(j, b) ==
    /\ Acquire(j, b)
    /\ semaphore' = semaphore - 1
    /\ pipelines' = Append(pipelines, NewPipeline(jobs[j].batches[b].urls, K))
    /\ jobs' = [jobs EXCEPT ![j].batches[b].status = RUNNING,
                            ![j].batches[b].started_at = TRUE,
                            ![j].batches[b].pipeline = Len(pipelines) + 1]
    /\ UNCHANGED <<manager, requests, scratch, importer, others>>

\* mutant of BatchRaises: the failed batch is queued again
BatchRaises_Requeues(j, b) ==
    /\ Acquire(j, b)
    /\ jobs' = [jobs EXCEPT ![j].batches[b].status = PENDING,
                            ![j].batches[b].started_at = TRUE,
                            ![j].batches[b].error = "pipeline"]
    /\ UNCHANGED <<manager, semaphore, requests, pipelines, scratch, importer, others>>

\* mutant of BatchRaises: the failing batch keeps its semaphore slot
BatchRaises_KeepsSlot(j, b) ==
    /\ Acquire(j, b)
    /\ semaphore' = semaphore - 1
    /\ jobs' = [jobs EXCEPT ![j].batches[b].status = FAILED,
                            ![j].batches[b].started_at = TRUE,
                            ![j].batches[b].error = "pipeline",
                            ![j].batches[b].completed_at = TRUE]
    /\ UNCHANGED <<manager, requests, pipelines, scratch, importer, others>>

\* _process_batch when an exception is raised in the try block before any
\* file task exists (ETLPipeline(...) builds the downloader, which creates
\* the output directory): except branch, finally, slot released
BatchRaises(j, b) ==
    /\ Acquire(j, b)
    /\ jobs' = [jobs EXCEPT ![j].batches[b].status = FAILED,
                            ![j].batches[b].started_at = TRUE,
                            ![j].batches[b].error = "pipeline",
                            ![j].batches[b].completed_at = TRUE]
    /\ UNCHANGED <<manager, semaphore, requests, pipelines, scratch, importer, others>>

\* _process_batch after run_batch_from_urls returned: counters, COMPLETED,
\* finally, slot released
BatchFinish(j, b) ==
    LET p == jobs[j].batches[b].pipeline
    IN  /\ jobs[j].batches[b].status = RUNNING
        /\ AllDone(pipelines[p])
        /\ LET results == Aggregate(pipelines[p])
           IN  jobs' = [jobs EXCEPT
                          ![j].batches[b].succeeded = results.files_processed,
                          ![j].batches[b].failed = results.errors,
                          ![j].batches[b].status = COMPLETED,
                          ![j].batches[b].completed_at = TRUE]
        /\ pipelines' = [pipelines EXCEPT ![p].returned = TRUE]
        /\ semaphore' = semaphore + 1
        /\ UNCHANGED <<manager, requests, scratch, importer, others>>

\* mutant of FinishMasterJob: completed_at is set without the gather
FinishMasterJob_NoGather(j) ==
    /\ jobs[j].started_at
    /\ ~jobs[j].completed_at
    /\ jobs' = [jobs EXCEPT ![j].completed_at = TRUE]
    /\ UNCHANGED <<manager, semaphore, requests, pipelines, scratch, importer, others>>

\* _process_master_job after its gather returned
FinishMasterJob(j) ==
    /\ jobs[j].started_at
    /\ ~jobs[j].completed_at
    /\ \A b \in 1..Len(jobs[j].batches) : jobs[j].batches[b].completed_at
    /\ jobs' = [jobs EXCEPT ![j].completed_at = TRUE]
    /\ UNCHANGED <<manager, semaphore, requests, pipelines, scratch, importer, others>>

\* ------------------------------------------------------------ ETLPipeline
\* ETLPipeline(max_concurrent_files=k).run_batch_from_urls(urls) called
\* directly, up to its gather
RunBatchFromUrls(urls, k) ==
    /\ pipelines = <<>>
    /\ pipelines' = <<NewPipeline(urls, k)>>
    /\ UNCHANGED <<manager, semaphore, jobs, requests, scratch, importer, others>>

\* run_batch_from_urls called directly: gather returned, total_stats returned
RunBatchReturns(p) ==
    /\ AllDone(pipelines[p])
    /\ ~pipelines[p].returned
    /\ pipelines' = [pipelines EXCEPT ![p].returned = TRUE]
    /\ UNCHANGED <<manager, semaphore, jobs, requests, scratch, importer, others>>

\* mutant of FileAcquire: the task does not wait for a free slot
FileAcquire_NoWait(p, i) ==
    /\ pipelines[p].tasks[i].pc = "wait"
    /\ \A h \in 1..(i - 1) : pipelines[p].tasks[h].pc # "wait"

\* async with semaphore in process_with_semaphore: tasks reach the
\* semaphore in list order and are woken first in, first out
FileAcquire(p, i) ==
    /\ pipelines[p].tasks[i].pc = "wait"
    /\ pipelines[p].semaphore > 0
    /\ \A h \in 1..(i - 1) : pipelines[p].tasks[h].pc # "wait"

TaskUrl(p, i) == pipelines[p].tasks[i].url

\* mutant of TaskFailed: the exception cancels the tasks still waiting
TaskFailed_CancelsSiblings(pl, i, err) ==
    [pl EXCEPT !.tasks = [ h \in 1..Len(pl.tasks) |->
        IF h = i
        THEN [pl.tasks[h] EXCEPT !.pc = "done", !.attempts = @ + 1,
                                 !.success = FALSE, !.error = err]
        ELSE IF pl.tasks[h].pc = "wait"
        THEN [pl.tasks[h] EXCEPT !.pc = "done", !.error = "cancelled"]
        ELSE pl.tasks[h] ]]

\* run_from_url called once and raising: the except branch of
\* process_with_semaphore returns {"success": False, "error": ...}
TaskFailed(pl, i, err) ==
    [pl EXCEPT !.tasks[i].pc = "done", !.tasks[i].attempts = @ + 1,
               !.tasks[i].success = FALSE, !.tasks[i].error = err]

\* ParquetDownloader.download raises: requests.get / raise_for_status
\* (nothing written yet) or iter_content while streaming into the opened
\* destination file (which is left as it is)
FileDownloadRaises(p, i) ==
    /\ FileAcquire(p, i)
    /\ \E created \in BOOLEAN :
          scratch' = IF created THEN scratch \cup {FileName(TaskUrl(p, i))}
                     ELSE scratch
    /\ pipelines' = [pipelines EXCEPT ![p] = TaskFailed(@, i, "fetch")]
    /\ UNCHANGED <<manager, semaphore, jobs, requests, importer, others>>

\* download returned the path, parser.parse_all raises
FileParseRaises(p, i) ==
    /\ FileAcquire(p, i)
    /\ scratch' = scratch \cup {FileName(TaskUrl(p, i))}
    /\ pipelines' = [pipelines EXCEPT ![p] = TaskFailed(@, i, "parse")]
    /\ UNCHANGED <<manager, semaphore, jobs, requests, importer, others>>

\* download and parse succeed; _load_to_database opens its session and
\* suspends in the first database call
FileOpensSession(p, i) ==
    /\ FileAcquire(p, i)
    /\ scratch' = scratch \cup {FileName(TaskUrl(p, i))}
    /\ pipelines' = [pipelines EXCEPT ![p].semaphore = @ - 1,
                                      ![p].tasks[i].attempts = @ + 1,
                                      ![p].tasks[i].pc = "load"]
    /\ UNCHANGED <<manager, semaphore, jobs, requests, importer, others>>

\* _load_to_database from the copy loop on: an exception of bulk_copy /
\* bulk_upsert (the database rejects the rows or cannot be reached) is
\* logged inside the loop and the loop goes on; only session.commit() raises
\* out of the session block
LoadToDatabase(task, copy, commit) ==
    IF commit = "ok"
    THEN [task EXCEPT !.pc = "done", !.success = TRUE,
                      !.copy_rejected = (copy = "rejected")]
    ELSE [task EXCEPT !.pc = "done", !.success = FALSE, !.error = "load",
                      !.copy_rejected = (copy = "rejected")]

\* process_parquet_file after the load returned: filepath.unlink() when
\* cleanup is on (an unlink error is only logged)
Cleanup(files, task) ==
    IF task.success THEN files \ {FileName(task.url)} ELSE files

\* the rest of run_from_url once the database answers, and the release of
\* the file semaphore
FileLoad(p, i) ==
    /\ pipelines[p].tasks[i].pc = "load"
    /\ \E copy \in {"ok", "rejected"}, commit \in {"ok", "raises"} :
          LET done == LoadToDatabase(pipelines[p].tasks[i], copy, commit)
          IN  /\ pipelines' = [pipelines EXCEPT ![p].semaphore = @ + 1,
                                                ![p].tasks[i] = done]
              /\ scratch' = Cleanup(scratch, done)
    /\ UNCHANGED <<manager, semaphore, jobs, requests, importer, others>>

\* database sessions held open by file ETLs
OpenSessions ==
    { pi \in (1..Len(pipelines)) \X (1..(MaxTotalUrls + MaxRunUrls)) :
        /\ pi[2] <= Len(pipelines[pi[1]].tasks)
        /\ pipelines[pi[1]].tasks[pi[2]].pc = "load" }

\* ---------------------------------------------------- ParquetCopyImporter
\* import_parquet_files_batch(file_paths, max_workers) up to the first
\* gather; with no file the loop body never runs and 0 is returned
ImportParquetFilesBatch(n, max_workers) ==
    /\ importer.pc = "idle"
    /\ LET tasks == [ t \in 1..n |-> [ pc |-> "pending", result |-> "none" ] ]
       IN  importer' =
             [ pc |-> IF n = 0 THEN "returned" ELSE "running",
               max_workers |-> max_workers, i |-> 0,
               tasks |-> StartChunk(tasks, Chunk(n, 0, max_workers)),
               total_records |-> 0 ]
    /\ UNCHANGED <<manager, semaphore, jobs, requests, pipelines, scratch, others>>

\* import_parquet_file raises before the COPY (requests, pq.read_table)
ImportFileRaises(t) ==
    /\ importer.tasks[t].pc = "new"
    /\ importer' = [importer EXCEPT !.tasks[t].pc = "done",
                                    !.tasks[t].result = "exception"]
    /\ UNCHANGED <<manager, semaphore, jobs, requests, pipelines, scratch, others>>

\* import_parquet_file read its file and awaits
\* bulk_copy_measurements(session=self.session, ...)
ImportFileCopies(t) ==
    /\ importer.tasks[t].pc = "new"
    /\ importer' = [importer EXCEPT !.tasks[t].pc = "copy"]
    /\ UNCHANGED <<manager, semaphore, jobs, requests, pipelines, scratch, others>>

\* bulk_copy_measurements returns the row count or raises
ImportFileCopyEnds(t) ==
    /\ importer.tasks[t].pc = "copy"
    /\ \E result \in {"int", "exception"} :
          importer' = [importer EXCEPT !.tasks[t].pc = "done",
                                       !.tasks[t].result = result]
    /\ UNCHANGED <<manager, semaphore, jobs, requests, pipelines, scratch, others>>

\* gather(*tasks, return_exceptions=True) returned: count the imports that
\* returned an int, go on with the next chunk or return
ImportChunkEnds ==
    LET n == Len(importer.tasks)
        chunk == Chunk(n, importer.i, importer.max_workers)
        next_i == importer.i + importer.max_workers
    IN  /\ importer.pc = "running"
        /\ \A t \in chunk : importer.tasks[t].pc = "done"
        /\ importer' =
              [importer EXCEPT
                 !.total_records = @ + Cardinality(
                     { t \in chunk : importer.tasks[t].result = "int" }),
                 !.i = next_i,
                 !.pc = IF next_i >= n THEN "returned" ELSE "running",
                 !.tasks = StartChunk(@, Chunk(n, next_i, importer.max_workers))]
        /\ UNCHANGED <<manager, semaphore, jobs, requests, pipelines, scratch, others>>

\* ----------------------------------------------------------------- loaders
\* bulk_copy_measurements(session, records, batch_size) up to its first copy
\* call, records being a list or a generator. The copy calls go to the
\* driver connection directly: they run inside the session's transaction
\* when it has begun one on that connection, else each commits on its own
BulkCopyMeasurements(generator, records, batch_size, autocommit) ==
    /\ loader.pc = "idle"
    /\ loader' = NewLoad(IF generator THEN "generator" ELSE "list",
                         records, batch_size, FALSE, autocommit)
    /\ table' = Stored
    /\ UNCHANGED <<ingest, web, parsing>>

\* one copy_records_to_table call of bulk_copy_measurements; its exception
\* leaves the function at once (the rows of an aborted transaction are lost)
CopyRecordsToTable ==
    /\ loader.pc = "copy"
    /\ loader.entry \in {"list", "generator"}
    /\ loader.i < Len(loader.records)
    /\ LET batch == NextBatch(loader)
       IN  IF CopyAccepted(batch, Stored)
           THEN /\ loader' = Copied(loader, batch)
                /\ table' = IF loader.autocommit
                            THEN table \cup Range(batch) ELSE table
           ELSE /\ loader' = [loader EXCEPT !.calls = Append(@, batch),
                                            !.errors = @ + 1,
                                            !.raised = TRUE,
                                            !.pc = "done",
                                            !.pending = {},
                                            !.aborted = ~loader.autocommit]
                /\ table' = table
    /\ UNCHANGED <<ingest, web, parsing>>

\* bulk_copy_measurements: the loop is over, return total_inserted
BulkCopyReturns ==
    /\ loader.pc = "copy"
    /\ loader.entry \in {"list", "generator"}
    /\ loader.i >= Len(loader.records)
    /\ loader' = [loader EXCEPT !.pc = "done"]
    /\ UNCHANGED <<ingest, table, web, parsing>>

\* ETLPipeline(batch_size, upsert_mode)._load_to_database(data) up to its
\* first repository call, in a session of its own
LoadMeasurements(measurements, batch_size, upsert_mode, autocommit) ==
    /\ loader.pc = "idle"
    /\ loader' = NewLoad("pipeline", measurements, batch_size, upsert_mode,
                         autocommit)
    /\ table' = Stored
    /\ UNCHANGED <<ingest, web, parsing>>

\* one turn of the loop of _load_to_database with upsert_mode off:
\* meas_repo.bulk_copy(batch); its exception (rows rejected, or transaction
\* already aborted) is logged and the loop goes on
RepoBulkCopy ==
    /\ loader.pc = "copy"
    /\ loader.entry = "pipeline"
    /\ ~loader.upsert_mode
    /\ loader.i < Len(loader.records)
    /\ LET batch == NextBatch(loader)
       IN  IF ~loader.aborted /\ CopyAccepted(batch, Stored)
           THEN /\ loader' = Copied(loader, batch)
                /\ table' = IF loader.autocommit
                            THEN table \cup Range(batch) ELSE table
           ELSE /\ loader' = [loader EXCEPT !.calls = Append(@, batch),
                                            !.errors = @ + 1,
                                            !.i = NextIndex(loader, batch),
                                            !.aborted = ~loader.autocommit]
                /\ table' = table
    /\ UNCHANGED <<ingest, web, parsing>>

\* one turn of the loop with upsert_mode on: meas_repo.bulk_upsert(batch),
\* a method MeasurementRepository does not have; the AttributeError is
\* logged and the loop goes on
RepoBulkUpsert ==
    /\ loader.pc = "copy"
    /\ loader.entry = "pipeline"
    /\ loader.upsert_mode
    /\ loader.i < Len(loader.records)
    /\ loader' = [loader EXCEPT !.errors = @ + 1,
                                !.i = loader.i + loader.batch_size]
    /\ UNCHANGED <<ingest, table, web, parsing>>

\* _load_to_database: the loop is over, session.commit(), return stats
LoadCommit ==
    /\ loader.pc = "copy"
    /\ loader.entry = "pipeline"
    /\ loader.i >= Len(loader.records)
    /\ table' = IF loader.aborted THEN table ELSE Stored
    /\ loader' = [loader EXCEPT !.pc = "done", !.pending = {}]
    /\ UNCHANGED <<ingest, web, parsing>>

\* the same call once more, on the same rows: the rows left pending by the
\* call before it are committed with its session
LoadAgain ==
    /\ loader.pc = "done"
    /\ loader.loads < MaxLoads
    /\ loader' = [loader EXCEPT !.pc = "copy", !.i = 0, !.calls = <<>>,
                                !.errors = 0, !.total = 0, !.raised = FALSE,
                                !.pending = {}, !.aborted = FALSE,
                                !.before = Stored, !.loads = @ + 1,
                                !.again = TRUE]
    /\ table' = Stored
    /\ UNCHANGED <<ingest, web, parsing>>

\* -------------------------------------------------------------- endpoints
\* upload_url_file of the router whose BatchManager this is, for an upload
\* of the bytes of text (or of bytes that are not UTF-8). Every exception
\* but UnicodeDecodeError raised in the try block, the HTTPException(400) of
\* an empty URL list included, is caught by "except Exception" and answered
\* with 500; api/v1/etl_async_file.py calls submit_file(urls, upsert=upsert),
\* which raises TypeError (submit_file takes urls only)
UploadUrlFile(decodable, text, upsert) ==
    LET endpoint == UploadEndpoint(manager)
        urls == ParseUrls(text)
        id == Len(jobs) + 1
        job == MasterJob(urls, manager.batch_size)
    IN  /\ http = NoResponse
        /\ IF ~decodable
           THEN /\ http' = Response(endpoint, 400, FALSE, <<>>, <<>>, NoJob)
                /\ UNCHANGED <<jobs, requests>>
           ELSE IF urls = <<>> \/ endpoint = "v1/etl_async_file"
           THEN /\ http' = Response(endpoint, 500, TRUE, text, urls, NoJob)
                /\ UNCHANGED <<jobs, requests>>
           ELSE /\ jobs' = Append(jobs, job)
                /\ requests' = Append(requests, urls)
                /\ http' = Response(endpoint, 200, TRUE, text, urls,
                                    [ id |-> id,
                                      total_urls |-> Len(urls),
                                      total_batches |-> job.total_batches ])
        /\ UNCHANGED <<manager, semaphore, pipelines, scratch, importer,
                       loader, table, import_jobs, etl_jobs, parsing>>

\* POST /async/batch: BatchETLRequest.validate_urls rejects an empty list
\* and more than 50 URLs (FastAPI answers a failed request validation with
\* 422); run_batch_etl stores the job and schedules _process_batch_job
RunBatchEtl(urls, upsert) ==
    /\ http = NoResponse
    /\ IF urls = <<>> \/ Len(urls) > MaxBatchUrls
       THEN /\ http' = Response("v1/etl_async", 422, TRUE, <<>>, urls, NoJob)
            /\ etl_jobs' = etl_jobs
       ELSE /\ etl_jobs' = Append(etl_jobs,
                 [ status |-> PENDING, urls |-> urls, upsert |-> upsert,
                   total_urls |-> Len(urls), processed_urls |-> 0,
                   failed_urls |-> 0, started_at |-> FALSE,
                   completed_at |-> FALSE, stats |-> <<>> ])
            /\ http' = Response("v1/etl_async", 202, TRUE, <<>>, urls,
                                [ id |-> Len(etl_jobs) + 1,
                                  total_urls |-> Len(urls),
                                  total_batches |-> 0 ])
    /\ UNCHANGED <<ingest, loader, table, import_jobs, parsing>>

\* _process_batch_job up to its first run_from_url
ProcessBatchJobStarts(j) ==
    /\ etl_jobs[j].status = PENDING
    /\ etl_jobs' = [etl_jobs EXCEPT ![j].status = RUNNING,
                                    ![j].started_at = TRUE]
    /\ UNCHANGED <<ingest, loader, table, http, import_jobs, parsing>>

\* mutant of ProcessBatchJobUrlEnds: a failed URL is counted as processed
\* too
ProcessBatchJobUrlEnds_CountsTwice(j, success) ==
    LET job == etl_jobs[j]
        url == job.urls[Len(job.stats) + 1]
        processed == job.processed_urls + 1
        failed == job.failed_urls + (IF success THEN 0 ELSE 1)
        last == Len(job.stats) + 1 = Len(job.urls)
    IN  /\ job.status = RUNNING
        /\ etl_jobs' = [etl_jobs EXCEPT
              ![j].stats = Append(@, [ url |-> url, success |-> success ]),
              ![j].processed_urls = processed,
              ![j].failed_urls = failed,
              ![j].status = IF ~last THEN RUNNING
                            ELSE IF failed = 0 THEN COMPLETED ELSE FAILED,
              ![j].completed_at = last]
        /\ UNCHANGED <<ingest, loader, table, http, import_jobs, parsing>>

\* _process_batch_job: run_from_url of the next URL of the list returns or
\* raises, its result is appended to stats and counted; after the last URL
\* the job is finalized
ProcessBatchJobUrlEnds(j, success) ==
    LET job == etl_jobs[j]
        url == job.urls[Len(job.stats) + 1]
        processed == job.processed_urls + (IF success THEN 1 ELSE 0)
        failed == job.failed_urls + (IF success THEN 0 ELSE 1)
        last == Len(job.stats) + 1 = Len(job.urls)
    IN  /\ job.status = RUNNING
        /\ etl_jobs' = [etl_jobs EXCEPT
              ![j].stats = Append(@, [ url |-> url, success |-> success ]),
              ![j].processed_urls = processed,
              ![j].failed_urls = failed,
              ![j].status = IF ~last THEN RUNNING
                            ELSE IF failed = 0 THEN COMPLETED ELSE FAILED,
              ![j].completed_at = last]
        /\ UNCHANGED <<ingest, loader, table, http, import_jobs, parsing>>

\* mutant of StatusResponse: the progress is the one computed at creation
StatusResponse_StaleProgress(id, job) ==
    [ endpoint |-> "status", status_code |-> 200, job_id |-> id,
      status |-> MasterStatus(job),
      total_batches |-> job.total_batches,
      progress |-> Progress(MasterJob(Flatten([ b \in 1..Len(job.batches) |->
                                                 job.batches[b].urls ]),
                                      job.batch_size)) ]

\* MasterJobResponse of the status endpoints: progress = master_job.progress
\* and status = master_job.status, read one after the other with no await
\* in between
StatusResponse(id, job) ==
    [ endpoint |-> "status", status_code |-> 200, job_id |-> id,
      status |-> MasterStatus(job),
      total_batches |-> job.total_batches,
      progress |-> Progress(job) ]

\* GET /async/file/status/{master_job_id} (get_file_job_status) and
\* GET /async/status/{master_job_id} (get_job_status) for a known id; an
\* unknown id is answered with 404. One read is followed per behaviour: it
\* can be taken at any state of the job, and its answer is kept while the
\* job moves on.
GetJobStatus(j) ==
    /\ j \in 1..Len(jobs)
    /\ http = NoResponse
    /\ http' = StatusResponse(j, jobs[j])
    /\ UNCHANGED <<ingest, loader, table, import_jobs, etl_jobs, parsing>>

\* ------------------------------------------------------------- timestamps
\* ParquetParser.parse_measurements on a file whose time column has the
\* timezone tz and the wall-clock readings walls
ParseMeasurements(tz, walls) ==
    LET series == [ i \in 1..Len(walls) |-> [ wall |-> walls[i], tz |-> tz ] ]
    IN  /\ stamps.pc = "idle"
        /\ stamps' = [ pc |-> "parsed", input |-> series,
                       parsed |-> ParseTimes(series), written |-> <<>> ]
        /\ UNCHANGED <<ingest, loader, table, web, parser, wire>>

\* MeasurementRepository.bulk_copy: the time field of every row of the COPY
\* text
BulkCopyTimes ==
    /\ stamps.pc = "parsed"
    /\ stamps' = [stamps EXCEPT
          !.pc = "written",
          !.written = [ i \in 1..Len(stamps.parsed) |->
                           Strftime(stamps.parsed[i]) ]]
    /\ UNCHANGED <<ingest, loader, table, web, parser, wire>>

\* ----------------------------------------------------------------- parser
\* ParquetParser.parse_measurements(df) of one of the two parsers
ParseMeasurementsOfFrame(impl, columns, df) ==
    /\ parser.pc = "idle"
    /\ parser' = Parsed(impl, columns, df, 1, <<>>)
    /\ UNCHANGED <<ingest, loader, table, web, stamps, wire>>

\* parse_measurements called a second time on the same data frame
ParseMeasurementsAgain ==
    /\ parser.pc = "parsed"
    /\ parser.calls = 1
    /\ ~parser.raised
    /\ parser' = Parsed(parser.impl, parser.columns, parser.df, 2,
                        parser.measurements)
    /\ UNCHANGED <<ingest, loader, table, web, stamps, wire>>

\* ETLPipeline.process_parquet_file after parse_all: an exception of the
\* parser propagates to process_with_semaphore, which reports the file as
\* failed; otherwise the rows are loaded and the statistics returned, and
\* the file is reported as processed
ProcessParquetFileEnds ==
    /\ parser.pc = "parsed"
    /\ parser.impl = "services/parsers/parquet_parser"
    /\ parser' = [parser EXCEPT
          !.pc = "done",
          !.result = IF parser.raised THEN "error" ELSE "success"]
    /\ UNCHANGED <<ingest, loader, table, web, stamps, wire>>

\* the created_at values of n master jobs in creation order: readings of
\* datetime.utcnow(), which two jobs created in a row may share
CreatedAts(n) ==
    { c \in [1..n -> 1..MaxJobs] : \A i \in 1..(n - 1) : c[i] <= c[i + 1] }

\* jobs.sort(key=lambda j: j.created_at, reverse=True) on the jobs in
\* insertion order: descending created_at, and the sort being stable, jobs
\* with equal created_at stay in insertion order
RECURSIVE SortedByCreatedAt(_, _)
SortedByCreatedAt(created, left) ==
    IF left = {} THEN <<>>
    ELSE LET first == CHOOSE i \in left : \A k \in left :
                          \/ created[i] > created[k]
                          \/ created[i] = created[k] /\ i <= k
         IN  <<first>> \o SortedByCreatedAt(created, left \ {first})

\* Python s[:limit]: the first limit elements, and for a negative limit
\* all but the last -limit elements
SliceTo(s, limit) ==
    IF limit >= 0 THEN SubSeq(s, 1, Min(limit, Len(s)))
    ELSE IF Len(s) + limit <= 0 THEN <<>>
    ELSE SubSeq(s, 1, Len(s) + limit)

\* BatchManager.list_jobs(limit), the jobs named by their position in the
\* registry
ListJobs(limit, created) ==
    /\ http = NoResponse
    /\ http' = [ endpoint |-> "jobs", status_code |-> 200, limit |-> limit,
                 created_at |-> created,
                 jobs |-> SliceTo(SortedByCreatedAt(created, 1..Len(jobs)),
                                  limit) ]
    /\ UNCHANGED <<ingest, loader, table, import_jobs, etl_jobs, parsing>>

\* BatchManager.get_job_status of an id that is not in the registry: None,
\* which the endpoints answer with 404
GetUnknownJobStatus(id) ==
    /\ id \notin 1..Len(jobs)
    /\ http = NoResponse
    /\ http' = [ endpoint |-> "status", status_code |-> 404, job_id |-> id ]
    /\ UNCHANGED <<ingest, loader, table, import_jobs, etl_jobs, parsing>>

\* MeasurementRepository.bulk_copy: the row m is formatted into its line
\* of the COPY text
BulkCopyFormats(m) ==
    /\ wire.pc = "idle"
    /\ wire' = [ pc |-> "formatted", m |-> m, line |-> CopyLine(m) ]
    /\ UNCHANGED <<ingest, loader, table, web, stamps, parser>>

\* bulk_copy: copy_to_table sends the text with its column list
BulkCopySends ==
    /\ wire.pc = "formatted"
    /\ wire' = [wire EXCEPT !.pc = "sent"]
    /\ UNCHANGED <<ingest, loader, table, web, stamps, parser>>

\* ----------------------------------------------------------- import jobs
\* the files whose COPY has ended without exception
CopiedFiles ==
    { t \in 1..Len(importer.tasks) : importer.tasks[t].result = "int" }

\* the files whose import has begun
BegunFiles ==
    { t \in 1..Len(importer.tasks) : importer.tasks[t].pc # "pending" }

\* POST /api/v1/import/parquet with n >= 1 URLs (ImportRequest: min_items=1,
\* 1 <= max_workers <= 32): store the job as pending and add
\* _run_import_job to the background tasks. cancelled, copied_at_cancel and
\* begun_at_cancel record what a returned cancel_job saw
ImportFromUrls(n, max_workers) ==
    /\ import_jobs = <<>>
    /\ importer.pc = "idle"
    /\ import_jobs' = <<[ status |-> "pending", urls |-> n,
                          max_workers |-> max_workers, task |-> "queued",
                          completed_at |-> FALSE, cancelled |-> FALSE,
                          copied_at_cancel |-> {}, begun_at_cancel |-> {} ]>>
    /\ UNCHANGED <<ingest, loader, table, http, etl_jobs, parsing>>

\* _run_import_job up to the first gather of import_parquet_files_batch:
\* status "running", session, ParquetCopyImporter(session)
RunImportJobStarts(j) ==
    /\ import_jobs[j].task = "queued"
    /\ import_jobs' = [import_jobs EXCEPT ![j].status = "running",
                                          ![j].task = "running"]
    /\ LET n == import_jobs[j].urls
           w == import_jobs[j].max_workers
           tasks == [ t \in 1..n |-> [ pc |-> "pending", result |-> "none" ] ]
       IN  importer' = [ pc |-> "running", max_workers |-> w, i |-> 0,
                         tasks |-> StartChunk(tasks, Chunk(n, 0, w)),
                         total_records |-> 0 ]
    /\ UNCHANGED <<manager, semaphore, jobs, requests, pipelines, scratch,
                   loader, table, http, etl_jobs, parsing>>

\* _run_import_job when get_async_session raises: except branch
RunImportJobRaises(j) ==
    /\ import_jobs[j].task = "queued"
    /\ import_jobs' = [import_jobs EXCEPT ![j].status = "failed",
                                          ![j].task = "returned",
                                          ![j].completed_at = TRUE]
    /\ UNCHANGED <<ingest, loader, table, http, etl_jobs, parsing>>

\* _run_import_job after import_eea_data_with_copy returned
RunImportJobEnds(j) ==
    /\ import_jobs[j].task = "running"
    /\ importer.pc = "returned"
    /\ import_jobs' = [import_jobs EXCEPT ![j].status = "completed",
                                          ![j].task = "returned",
                                          ![j].completed_at = TRUE]
    /\ UNCHANGED <<ingest, loader, table, http, etl_jobs, parsing>>

\* DELETE /api/v1/import/jobs/{job_id} on a job that is pending or running
\* (any other job is answered with 400, an unknown id with 404)
CancelJob(j) ==
    /\ import_jobs[j].status \in {"pending", "running"}
    /\ import_jobs' = [import_jobs EXCEPT ![j].status = "cancelled",
                                          ![j].completed_at = TRUE,
                                          ![j].cancelled = TRUE,
                                          ![j].copied_at_cancel = CopiedFiles,
                                          ![j].begun_at_cancel = BegunFiles]
    /\ UNCHANGED <<ingest, loader, table, http, etl_jobs, parsing>>

\* ------------------------------------------------------------------- Next
Batches == { jb \in (1..Len(jobs)) \X (1..(MaxTotalUrls + MaxSubmitUrls)) :
               jb[2] <= Len(jobs[jb[1]].batches) }

Tasks == { pi \in (1..Len(pipelines)) \X (1..(MaxTotalUrls + MaxRunUrls)) :
             pi[2] <= Len(pipelines[pi[1]].tasks) }

\* the batch manager serving submit_file calls
Next ==
    \/ \E n \in 0..(MaxTotalUrls - TotalSubmitted) : SubmitFile(UrlList(n))
    \/ \E j \in 1..Len(jobs) : StartMasterJob(j)
    \/ \E jb \in Batches : BatchStart(jb[1], jb[2])
    \/ \E jb \in Batches : BatchRaises(jb[1], jb[2])
    \/ \E jb \in Batches : BatchFinish(jb[1], jb[2])
    \/ \E j \in 1..Len(jobs) : FinishMasterJob(j)
    \/ \E pi \in Tasks : FileDownloadRaises(pi[1], pi[2])
    \/ \E pi \in Tasks : FileParseRaises(pi[1], pi[2])
    \/ \E pi \in Tasks : FileOpensSession(pi[1], pi[2])
    \/ \E pi \in Tasks : FileLoad(pi[1], pi[2])

Spec == Init /\ [][Next]_vars

\* one direct call of run_batch_from_urls
NextPipeline ==
    \/ \E n \in 0..MaxRunUrls : \E k \in ConcurrentFilesArgs :
          RunBatchFromUrls(UrlList(n), k)
    \/ \E pi \in Tasks : FileDownloadRaises(pi[1], pi[2])
    \/ \E pi \in Tasks : FileParseRaises(pi[1], pi[2])
    \/ \E pi \in Tasks : FileOpensSession(pi[1], pi[2])
    \/ \E pi \in Tasks : FileLoad(pi[1], pi[2])
    \/ \E p \in 1..Len(pipelines) : RunBatchReturns(p)

SpecPipeline == Init /\ [][NextPipeline]_vars

\* one direct call of run_batch_from_urls on URLs that may share their last
\* path segment
NextSiblings ==
    \/ /\ pipelines = <<>>
       /\ \E urls \in SeqsUpTo(SiblingUrls, MaxSiblingUrls) :
             \E k \in ConcurrentFilesArgs : RunBatchFromUrls(urls, k)
    \/ \E pi \in Tasks : FileDownloadRaises(pi[1], pi[2])
    \/ \E pi \in Tasks : FileParseRaises(pi[1], pi[2])
    \/ \E pi \in Tasks : FileOpensSession(pi[1], pi[2])
    \/ \E pi \in Tasks : FileLoad(pi[1], pi[2])
    \/ \E p \in 1..Len(pipelines) : RunBatchReturns(p)

SpecSiblings == Init /\ [][NextSiblings]_vars

\* submit_file calls alone, on URL lists with repetitions
NextSubmit == \E urls \in SeqsUpTo(URLS, MaxSubmitUrls) : SubmitFile(urls)

SpecSubmit == Init /\ [][NextSubmit]_vars

\* one import_parquet_files_batch call on one ParquetCopyImporter
NextImporter ==
    \/ \E n \in 0..MaxImportFiles : \E w \in MaxWorkersArgs :
          ImportParquetFilesBatch(n, w)
    \/ \E t \in 1..Len(importer.tasks) : ImportFileRaises(t)
    \/ \E t \in 1..Len(importer.tasks) : ImportFileCopies(t)
    \/ \E t \in 1..Len(importer.tasks) : ImportFileCopyEnds(t)
    \/ ImportChunkEnds

SpecImporter == Init /\ [][NextImporter]_vars

\* one loader call, made again on the same rows
NextLoader ==
    \/ /\ loader.pc = "idle"
       /\ \E generator \in BOOLEAN, records \in SeqsUpTo(ROWS, MaxRows),
             batch_size \in BatchSizeArgs, autocommit \in BOOLEAN :
             BulkCopyMeasurements(generator, records, batch_size, autocommit)
    \/ CopyRecordsToTable
    \/ BulkCopyReturns
    \/ /\ loader.pc = "idle"
       /\ \E measurements \in SeqsUpTo(ROWS, MaxRows),
             batch_size \in BatchSizeArgs, upsert_mode, autocommit \in BOOLEAN :
             LoadMeasurements(measurements, batch_size, upsert_mode,
                              autocommit)
    \/ RepoBulkCopy
    \/ RepoBulkUpsert
    \/ LoadCommit
    \/ LoadAgain

SpecLoader == Init /\ [][NextLoader]_vars

\* one request to a submission endpoint, and the task it starts
NextUpload ==
    \/ /\ http = NoResponse
       /\ \E decodable \in BOOLEAN, text \in SeqsUpTo(Chars, MaxTextLen),
             upsert \in BOOLEAN :
             UploadUrlFile(decodable, IF decodable THEN text ELSE <<>>, upsert)
    \/ /\ http = NoResponse
       /\ \E n \in 0..MaxPostUrls, upsert \in BOOLEAN :
             RunBatchEtl([ i \in 1..n |-> [ c \in 1..i |-> "u" ] ], upsert)
    \/ \E j \in 1..Len(etl_jobs) : ProcessBatchJobStarts(j)
    \/ \E j \in 1..Len(etl_jobs) : \E success \in BOOLEAN :
          ProcessBatchJobUrlEnds(j, success)

SpecUpload == InitRouters /\ [][NextUpload]_vars

\* the batch manager serving submit_file calls and status reads
NextStatus ==
    \/ /\ Len(jobs) < MaxReadJobs
       /\ \E n \in 0..(MaxReadUrls - TotalSubmitted) : SubmitFile(UrlList(n))
    \/ \E j \in 1..Len(jobs) : StartMasterJob(j)
    \/ \E jb \in Batches : BatchStart(jb[1], jb[2])
    \/ \E jb \in Batches : BatchRaises(jb[1], jb[2])
    \/ \E jb \in Batches : BatchFinish(jb[1], jb[2])
    \/ \E j \in 1..Len(jobs) : FinishMasterJob(j)
    \/ \E pi \in Tasks : FileDownloadRaises(pi[1], pi[2])
    \/ \E pi \in Tasks : FileParseRaises(pi[1], pi[2])
    \/ \E pi \in Tasks : FileOpensSession(pi[1], pi[2])
    \/ \E pi \in Tasks : FileLoad(pi[1], pi[2])
    \/ \E j \in 1..Len(jobs) : GetJobStatus(j)

SpecStatus == Init /\ [][NextStatus]_vars

\* a step of the tasks the batch manager has scheduled
Processing ==
    \/ \E j \in 1..Len(jobs) : StartMasterJob(j)
    \/ \E jb \in Batches : BatchStart(jb[1], jb[2])
    \/ \E jb \in Batches : BatchRaises(jb[1], jb[2])
    \/ \E jb \in Batches : BatchFinish(jb[1], jb[2])
    \/ \E j \in 1..Len(jobs) : FinishMasterJob(j)
    \/ \E pi \in Tasks : FileDownloadRaises(pi[1], pi[2])
    \/ \E pi \in Tasks : FileParseRaises(pi[1], pi[2])
    \/ \E pi \in Tasks : FileOpensSession(pi[1], pi[2])
    \/ \E pi \in Tasks : FileLoad(pi[1], pi[2])

\* the batch manager followed to the end of its jobs
NextToTheEnd ==
    \/ /\ Len(jobs) < MaxReadJobs
       /\ \E n \in 0..(MaxReadUrls - TotalSubmitted) : SubmitFile(UrlList(n))
    \/ Processing

\* the event loop runs a task that is ready, and every file ETL invocation
\* returns or raises: while a step of a scheduled task is possible, one is
\* taken
SpecToTheEnd == Init /\ [][NextToTheEnd]_vars /\ WF_vars(Processing)

\* the registry of the batch manager: submissions, listings and lookups
NextRegistry ==
    \/ \E n \in 0..1 : SubmitFile(UrlList(n))
    \/ /\ http = NoResponse
       /\ \E limit \in (0 - MaxJobs)..(MaxJobs + 1) :
             \E created \in CreatedAts(Len(jobs)) : ListJobs(limit, created)
    \/ \E j \in 1..Len(jobs) : GetJobStatus(j)
    \/ \E id \in {0, Len(jobs) + 1} : GetUnknownJobStatus(id)

SpecRegistry == Init /\ [][NextRegistry]_vars

\* one import job of api/routes/import_routes.py, its task and its cancel
NextImportJobs ==
    \/ \E n \in 1..MaxImportFiles : \E w \in MaxWorkersArgs :
          ImportFromUrls(n, w)
    \/ \E j \in 1..Len(import_jobs) : RunImportJobStarts(j)
    \/ \E j \in 1..Len(import_jobs) : RunImportJobRaises(j)
    \/ \E t \in 1..Len(importer.tasks) : ImportFileRaises(t)
    \/ \E t \in 1..Len(importer.tasks) : ImportFileCopies(t)
    \/ \E t \in 1..Len(importer.tasks) : ImportFileCopyEnds(t)
    \/ ImportChunkEnds
    \/ \E j \in 1..Len(import_jobs) : RunImportJobEnds(j)
    \/ \E j \in 1..Len(import_jobs) : CancelJob(j)

SpecImportJobs == Init /\ [][NextImportJobs]_vars

\* one data frame parsed by one of the parsers, and the file ETL it is
\* part of
NextParser ==
    \/ /\ parser.pc = "idle"
       /\ \E impl \in ParserImpls, columns \in ColumnSets :
             \E df \in SeqsUpTo(DfRows(columns), MaxDfRows) :
                ParseMeasurementsOfFrame(impl, columns, df)
    \/ ParseMeasurementsAgain
    \/ ProcessParquetFileEnds

SpecParser == Init /\ [][NextParser]_vars

\* one row encoded by bulk_copy
NextWire ==
    \/ /\ wire.pc = "idle"
       /\ \E m \in MeasurementDicts : BulkCopyFormats(m)
    \/ BulkCopySends

SpecWire == Init /\ [][NextWire]_vars

\* one parquet file parsed and its rows formatted for COPY
NextStamps ==
    \/ /\ stamps.pc = "idle"
       /\ \E tz \in TimeZones, walls \in SeqsUpTo(Hours, MaxStamps) :
             ParseMeasurements(tz, walls)
    \/ BulkCopyTimes

SpecStamps == Init /\ [][NextStamps]_vars

\* ================================================================ claims
BatchOf(jb) == jobs[jb[1]].batches[jb[2]]

RunningBatches == { jb \in Batches : BatchOf(jb).status = RUNNING }

\* C1: the number of batches with status RUNNING, over all master jobs of
\* the manager, never exceeds max_concurrent_batches.
C1_RunningBatchesWithinCap ==
    Cardinality(RunningBatches) <= manager.max_concurrent_batches

\* C1 witness: the cap is reached by batches of two master jobs, or is
\* reached while a further batch waits for a slot.
C1_Witness ==
    /\ Cardinality(RunningBatches) = manager.max_concurrent_batches
    /\ \E jb \in Batches :
          jobs[jb[1]].started_at /\ BatchOf(jb).status = PENDING
    /\ Len(jobs) = 2

InFlight(p) ==
    { i \in 1..Len(pipelines[p].tasks) : pipelines[p].tasks[i].pc = "load" }

\* C2: within one run_batch_from_urls call with max_concurrent_files = K at
\* most K run_from_url invocations are in flight, whatever the URLs and the
\* per-file outcomes.
C2_FilesInFlightWithinCap ==
    \A p \in 1..Len(pipelines) :
        Cardinality(InFlight(p)) <= pipelines[p].max_concurrent_files

\* C2 witness: K invocations in flight, one URL still waiting for a slot,
\* after one file failed and one succeeded.
C2_Witness ==
    \E p \in 1..Len(pipelines) :
        LET T == pipelines[p].tasks
        IN  /\ Cardinality(InFlight(p)) = pipelines[p].max_concurrent_files
            /\ \E i \in 1..Len(T) : T[i].pc = "wait"
            /\ \E i \in 1..Len(T) : T[i].pc = "done" /\ T[i].success
            /\ \E i \in 1..Len(T) : T[i].pc = "done" /\ ~T[i].success

\* C3: the sessions held open by the file ETLs of a BatchManager number at
\* most G x K, and G x K is below pool_size + max_overflow for every
\* BatchManager instance the code constructs.
C3_SessionsBelowPoolLimit ==
    /\ Cardinality(OpenSessions) <= manager.max_concurrent_batches * K
    /\ manager \in ConstructedManagers =>
          manager.max_concurrent_batches * K < pool_size + max_overflow

CeilDiv(n, d) == (n + d - 1) \div d

\* C4: submit_file with N URLs and batch size B creates ceil(N/B) batches,
\* all of B URLs except the last, which has 1..B; the batches' URL lists
\* concatenated in batch order are the input list; total_urls = N and
\* total_batches = ceil(N/B).
C4_BatchesPartitionInput ==
    \A j \in 1..Len(jobs) :
        LET N == Len(requests[j])
            B == manager.batch_size
            bs == jobs[j].batches
        IN  /\ Len(bs) = CeilDiv(N, B)
            /\ \A b \in 1..(Len(bs) - 1) : Len(bs[b].urls) = B
            /\ Len(bs) > 0 =>
                  (Len(bs[Len(bs)].urls) >= 1 /\ Len(bs[Len(bs)].urls) <= B)
            /\ Flatten([ b \in 1..Len(bs) |-> bs[b].urls ]) = requests[j]
            /\ jobs[j].total_urls = N
            /\ jobs[j].total_batches = CeilDiv(N, B)

\* C4 witness: a list with a repeated URL split into a full batch and a
\* shorter last batch.
C4_Witness ==
    \E j \in 1..Len(jobs) :
        /\ Len(jobs[j].batches) = 2
        /\ Len(jobs[j].batches[1].urls) = 2
        /\ Len(jobs[j].batches[2].urls) = 1
        /\ requests[j][1] = requests[j][3]
        /\ requests[j][1] # requests[j][2]

Terminal(s) == s = COMPLETED \/ s = FAILED

\* the status rule of the spec, read on the batch statuses of a job
StatusRule(job) ==
    LET bs == job.batches
        all(s) == \A b \in 1..Len(bs) : bs[b].status = s
    IN  /\ MasterStatus(job) = "completed" <=> all(COMPLETED)
        /\ MasterStatus(job) = "failed" <=> all(FAILED)
        /\ (~all(COMPLETED) /\ ~all(FAILED)) =>
              IF \E b \in 1..Len(bs) :
                    bs[b].status = RUNNING \/ Terminal(bs[b].status)
              THEN MasterStatus(job) = "running"
              ELSE MasterStatus(job) = "pending"

C6_AnyFailedBatchFailsJob ==
    \A j \in 1..Len(jobs) :
        LET bs == jobs[j].batches
        IN  (/\ \A b \in 1..Len(bs) : Terminal(bs[b].status)
             /\ \E b \in 1..Len(bs) : bs[b].status = FAILED)
            => MasterStatus(jobs[j]) = "failed"

Raised(task) == task.pc = "done" /\ task.error # "none"
Returned(task) == task.pc = "done" /\ task.error = "none"

LoadFailed(task) ==
    task.pc = "done" /\ (task.copy_rejected \/ task.error = "load")

\* C8: a file whose bulk load the database rejects is a per-file failure:
\* a batch in which every file's load failed finishes completed with
\* failed = batch size and succeeded = 0.
C8_LoadFailuresCounted ==
    \A jb \in Batches :
        LET batch == BatchOf(jb)
        IN  (/\ batch.status = COMPLETED
             /\ \A i \in 1..Len(pipelines[batch.pipeline].tasks) :
                   LoadFailed(pipelines[batch.pipeline].tasks[i]))
            => (batch.failed = Len(batch.urls) /\ batch.succeeded = 0)

\* the file ETLs in flight that use the scratch file of name f
UsedBy(f) ==
    { pi \in Tasks : /\ pipelines[pi[1]].tasks[pi[2]].pc = "load"
                     /\ FileName(TaskUrl(pi[1], pi[2])) = f }

\* C9: once a file ETL has ended, in success or in a download, parse or
\* load failure, its scratch artifact is gone (unless a file ETL still in
\* flight uses the same path).
C9_NoScratchLeftBehind ==
    \A pi \in Tasks :
        (/\ pipelines[pi[1]].tasks[pi[2]].pc = "done"
         /\ UsedBy(FileName(TaskUrl(pi[1], pi[2]))) = {})
        => FileName(TaskUrl(pi[1], pi[2])) \notin scratch

\* C10: a database session is in use by at most one loader at a time: each
\* file ETL of a pipeline loads through the session it opened, and the
\* imports of import_parquet_files_batch never copy on self.session at the
\* same time.
C10_OneLoaderPerSession ==
    /\ \A s \in OpenSessions : Cardinality({ pi \in OpenSessions : pi = s }) <= 1
    /\ Cardinality(SessionUsers) <= 1

\* the state a job is in when submit_file returns it, but for its status
FreshJob(job) ==
    /\ ~job.started_at
    /\ \A b \in 1..Len(job.batches) :
          /\ job.batches[b].status = PENDING
          /\ ~job.batches[b].started_at
          /\ job.batches[b].succeeded = 0
          /\ job.batches[b].failed = 0

\* a submit_file call returns in this step
SubmitReturns == Len(jobs') = Len(jobs) + 1

CopyLoadDone ==
    /\ loader.pc = "done"
    /\ loader.entry \in {"list", "generator"}
          \/ (loader.entry = "pipeline" /\ ~loader.upsert_mode)

\* the copy calls issued are the input cut into ceil(N/b) batches of at
\* most b rows, in order, and the count returned is N if no call failed
EveryRowSentOnce ==
    LET N == Len(loader.records)
        b == loader.batch_size
    IN  /\ Len(loader.calls) = CeilDiv(N, b)
        /\ \A c \in 1..Len(loader.calls) : Len(loader.calls[c]) <= b
        /\ Flatten(loader.calls) = loader.records
        /\ N = 0 => loader.calls = <<>>
        /\ loader.errors = 0 => loader.total = N

DistinctKeys(records) ==
    \A x, y \in 1..Len(records) : x # y => records[x].key # records[y].key

\* the rows to write hold a key twice or a key that is stored already
Conflicting(records, stored) ==
    ~DistinctKeys(records) \/ Keys(Range(records)) \cap Keys(stored) # {}

\* C14: with upsert mode off, a write of rows whose primary keys are stored
\* already, or that hold the same key twice, fails with an error and leaves
\* the table as it was before that write.
C14_ConflictingWriteFailsCleanly ==
    (CopyLoadDone /\ Conflicting(loader.records, loader.before))
       => (loader.raised /\ Stored = loader.before)

\* C15: with upsert_mode on, loading the same N rows of distinct keys twice
\* through _load_to_database leaves exactly those rows (next to what was
\* stored before) in the table, both loads returning without error.
C15_UpsertTwiceLeavesTheRows ==
    (/\ loader.pc = "done"
     /\ loader.entry = "pipeline"
     /\ loader.upsert_mode
     /\ loader.again
     /\ DistinctKeys(loader.records))
    => (/\ table = loader.initial \cup Range(loader.records)
        /\ ~loader.raised)

\* a submission endpoint answers in this step
Answered == http = NoResponse /\ http' # NoResponse

\* C16: a submission without URLs (an empty urls list in the JSON body, or
\* an uploaded file of blank and '#' lines only) is answered with 400 and
\* leaves the registries as they are.
C16_EmptySubmissionIs400 ==
    [][(Answered /\ http'.decodable /\ http'.urls = <<>>) =>
          (/\ http'.status_code = 400
           /\ jobs' = jobs
           /\ etl_jobs' = etl_jobs)]_vars

\* C17: an uploaded UTF-8 file with at least one URL line creates exactly
\* one master job and returns its id; the job's URLs are the file's lines,
\* trimmed, in file order, without the lines that are empty after trimming
\* or start with '#', and total_urls is their count.
C17_UploadCreatesOneJob ==
    [][(/\ Answered
        /\ http'.endpoint # "v1/etl_async"
        /\ http'.decodable
        /\ ParseUrls(http'.text) # <<>>) =>
          (/\ Len(jobs') = Len(jobs) + 1
           /\ SubSeq(jobs', 1, Len(jobs)) = jobs
           /\ http'.job_id = Len(jobs')
           /\ LET job == jobs'[Len(jobs')]
              IN  /\ Flatten([ b \in 1..Len(job.batches) |->
                                  job.batches[b].urls ])
                        = ParseUrls(http'.text)
                  /\ job.total_urls = Len(ParseUrls(http'.text))
                  /\ http'.total_urls = job.total_urls)]_vars

\* C18: after a cancel request on a pending or running job has returned,
\* the job's status is terminal in every later state, none of its work
\* that had not begun begins, and no further rows of it are written.
C18_CancelStopsTheJob ==
    \A j \in 1..Len(import_jobs) :
        import_jobs[j].cancelled =>
            /\ import_jobs[j].status \in {"cancelled", "completed", "failed"}
            /\ BegunFiles = import_jobs[j].begun_at_cancel
            /\ CopiedFiles = import_jobs[j].copied_at_cancel

\* the status rule read on the counts of a progress record
StatusOfCounts(progress, total_batches) ==
    IF total_batches = 0 THEN "created"
    ELSE IF progress.batches_completed = total_batches THEN "completed"
    ELSE IF progress.batches_failed = total_batches THEN "failed"
    ELSE IF progress.batches_running > 0 THEN "running"
    ELSE IF progress.batches_completed > 0 \/ progress.batches_failed > 0
         THEN "running"
    ELSE "pending"

\* C19: every status read answers with a status and a progress record
\* computed from one state of the batch list: the four batch counts add up
\* to total_batches and the status is the derivation rule applied to the
\* batch statuses that progress counted.
C19_StatusReadIsConsistent ==
    (http.endpoint = "status" /\ http.status_code = 200) =>
        /\ http.progress.batches_completed + http.progress.batches_failed
             + http.progress.batches_running + http.progress.batches_pending
              = http.total_batches
        /\ http.status = StatusOfCounts(http.progress, http.total_batches)

\* C19 witness: a read answered "running" with one batch completed and one
\* running, while the stored job has moved on since.
C19_Witness ==
    /\ http.endpoint = "status"
    /\ http.status = "running"
    /\ http.progress.batches_completed = 1
    /\ http.progress.batches_running = 1
    /\ MasterStatus(jobs[http.job_id]) = "completed"

\* the instant a timestamp of the input file denotes: a naive one is read
\* as UTC
InputInstant(stamp) ==
    IF stamp.tz = "naive" THEN stamp.wall ELSE Instant(stamp)

\* C20: every row written carries its instant in UTC: the text handed to
\* the database has offset +00 and denotes the same instant as the input
\* timestamp, a naive input being tagged as UTC unchanged.
C20_WrittenInstantIsTheInputInstant ==
    stamps.pc = "written" =>
        \A i \in 1..Len(stamps.written) :
            /\ stamps.written[i].tz = "+00:00"
            /\ Instant(stamps.written[i]) = InputInstant(stamps.input[i])

\* the rows of the data frame whose three required cells are not null
ExpectedRows(df) == ValidPositions(df, 1)

\* C21: parse_measurements returns exactly the input rows whose time,
\* sampling point and pollutant are all non-null, in input order; every
\* produced row has the three fields non-null; parsing the same input
\* twice gives the same sequence.
C21_ParseKeepsTheCompleteRows ==
    (parser.pc # "idle" /\ ~parser.raised
        /\ HasRequiredColumns(parser.columns)) =>
        /\ [ k \in 1..Len(parser.measurements) |->
                parser.measurements[k].row ] = ExpectedRows(parser.df)
        /\ \A k \in 1..Len(parser.measurements) :
              /\ parser.measurements[k].time # "null"
              /\ parser.measurements[k].sampling_point_id # "null"
              /\ parser.measurements[k].pollutant_code # "null"
        /\ parser.calls = 2 => parser.before = parser.measurements

\* C22: parsing a file in which a required input has no column under
\* either name fails with a parse error, and the file ETL ends as a
\* failure.
C22_MissingColumnFailsTheFile ==
    ~HasRequiredColumns(parser.columns) =>
        /\ parser.pc # "idle" => parser.raised
        /\ parser.pc = "done" => parser.result = "error"

\* the step is a list_jobs or get_job_status call
RegistryRead == http' # http /\ http'.endpoint \in {"jobs", "status"}

\* C23: list_jobs(limit) returns at most limit jobs, from the most recently
\* created to the oldest, and they are the limit most recent ones;
\* list_jobs and get_job_status leave the registry as it is, and
\* get_job_status of an unknown id returns no job. A limit below 0 is read
\* as 0.
C23_ListJobsMostRecentFirst ==
    [][RegistryRead =>
          /\ jobs' = jobs
          /\ http'.endpoint = "status" =>
                (http'.status_code = 404 <=> http'.job_id \notin 1..Len(jobs))
          /\ http'.endpoint = "jobs" =>
                LET listed == http'.jobs
                    n == Len(jobs)
                    limit == IF http'.limit < 0 THEN 0 ELSE http'.limit
                IN  /\ Len(listed) = Min(limit, n)
                    /\ \A k \in 1..Len(listed) : listed[k] = n + 1 - k]_vars

\* C24: in one batch run run_from_url is started exactly once per list
\* entry, never a second time, and a failing file neither cancels nor skips
\* a sibling: a task has ended only after its own single attempt, a waiting
\* task can always go on once a slot is free, and when the run returns
\* every URL has been attempted once.
C24_EveryUrlAttemptedOnce ==
    \A p \in 1..Len(pipelines) :
        LET T == pipelines[p].tasks
        IN  /\ \A i \in 1..Len(T) :
                  /\ T[i].attempts = IF T[i].pc = "wait" THEN 0 ELSE 1
                  /\ T[i].error # "cancelled"
            /\ (\E i \in 1..Len(T) : T[i].pc = "wait") =>
                  (pipelines[p].semaphore > 0 \/ InFlight(p) # {})
            /\ pipelines[p].returned =>
                  \A i \in 1..Len(T) : T[i].pc = "done" /\ T[i].attempts = 1

\* C24 witness: a run that returned after its first file failed in the
\* download, its second in the parse and the two after them succeeded.
C24_Witness ==
    \E p \in 1..Len(pipelines) :
        LET T == pipelines[p].tasks
        IN  /\ pipelines[p].returned
            /\ Len(T) = 4
            /\ T[1].error = "fetch" /\ T[2].error = "parse"
            /\ T[3].success /\ T[4].success

\* C25: a batch's status only moves pending -> running -> completed or
\* pending -> running -> failed (the running of a batch that fails before
\* its first suspension lies inside one step): completed and failed are
\* absorbing, no batch returns to pending or running, a batch is started at
\* most once, and its succeeded and failed counters are 0 until it is
\* completed.
C25_BatchStatusMovesForward ==
    [][\A jb \in Batches :
          LET old == BatchOf(jb)
              new == jobs'[jb[1]].batches[jb[2]]
          IN  /\ old.status = PENDING =>
                    new.status \in {PENDING, RUNNING, FAILED}
              /\ old.status = RUNNING =>
                    new.status \in {RUNNING, COMPLETED, FAILED}
              /\ Terminal(old.status) => new = old
              /\ new.status = PENDING <=> ~new.started_at
              /\ new.started_at # old.started_at =>
                    (old.status = PENDING /\ new.status \in {RUNNING, FAILED})
              /\ new.pipeline # old.pipeline => old.status = PENDING
              /\ new.status # COMPLETED =>
                    (new.succeeded = 0 /\ new.failed = 0)]_vars

\* C25 witness: of two batches of a job, one failed and the other
\* completed with one file succeeded.
C25_Witness ==
    \E j \in 1..Len(jobs) :
        /\ Len(jobs[j].batches) = 2
        /\ jobs[j].batches[1].status = FAILED
        /\ jobs[j].batches[2].status = COMPLETED
        /\ jobs[j].batches[2].succeeded = 1

\* the j-th master job has ended: every batch completed or failed, and
\* completed_at set
JobEnded(j) ==
    /\ j <= Len(jobs)
    /\ jobs[j].completed_at
    /\ \A b \in 1..Len(jobs[j].batches) :
          Terminal(jobs[j].batches[b].status)

\* C26: when every file ETL invocation returns or raises, every batch of
\* every submitted master job eventually is completed or failed, also the
\* batches queued behind a batch that failed, and every master job
\* eventually has completed_at set.
C26_EveryJobEnds ==
    \A j \in 1..MaxReadJobs : (j <= Len(jobs)) ~> JobEnded(j)

\* C26 witness: with one batch slot, a job has ended whose first batch
\* failed and whose second batch, queued behind it, completed.
C26_Witness ==
    /\ manager.max_concurrent_batches = 1
    /\ JobEnded(1)
    /\ Len(jobs[1].batches) = 2
    /\ jobs[1].batches[1].status = FAILED
    /\ jobs[1].batches[2].status = COMPLETED

\* C27: in every reachable state a batch has completed_at set iff its
\* status is completed or failed, a batch has an error message iff its
\* status is failed, and a master job has completed_at set only if every
\* one of its batches is completed or failed.
C27_CompletionFieldsMatchStatus ==
    \A j \in 1..Len(jobs) :
        /\ \A b \in 1..Len(jobs[j].batches) :
              LET batch == jobs[j].batches[b]
              IN  /\ batch.completed_at <=> Terminal(batch.status)
                  /\ batch.error # "none" <=> batch.status = FAILED
        /\ jobs[j].completed_at =>
              \A b \in 1..Len(jobs[j].batches) :
                  Terminal(jobs[j].batches[b].status)

\* C27 witness: a master job with completed_at set, one batch failed with
\* its error message and one batch completed.
C27_Witness ==
    \E j \in 1..Len(jobs) :
        /\ jobs[j].completed_at
        /\ \E b \in 1..Len(jobs[j].batches) :
              /\ jobs[j].batches[b].status = FAILED
              /\ jobs[j].batches[b].error = "pipeline"
        /\ \E b \in 1..Len(jobs[j].batches) :
              jobs[j].batches[b].status = COMPLETED

\* C28: no two file ETLs in flight at the same time use the same scratch
\* file path, so none overwrites, parses or deletes the artifact of
\* another.
C28_ScratchPathsAreDisjoint ==
    \A pi \in Tasks : \A qi \in Tasks :
        (/\ pi # qi
         /\ pipelines[pi[1]].tasks[pi[2]].pc = "load"
         /\ pipelines[qi[1]].tasks[qi[2]].pc = "load")
        => FileName(TaskUrl(pi[1], pi[2])) # FileName(TaskUrl(qi[1], qi[2]))

ColumnAt(name) == CHOOSE k \in 1..Len(CopyColumns) : CopyColumns[k] = name

\* the value the row holds for a column: validity and verification are
\* also read under their older names
RowValue(m, name) ==
    CASE name = "validity" ->
             IF m.validity # "None" THEN m.validity ELSE m.validity_flag_id
      [] name = "verification" ->
             IF m.verification # "None" THEN m.verification
             ELSE m.verification_status_id
      [] OTHER -> m[name]

\* the optional columns of the COPY text
OptionalColumns ==
    { "value", "unit", "aggregation_type", "validity", "verification",
      "data_capture", "result_time", "observation_id" }

\* C30: bulk_copy encodes an optional field with the null sentinel iff the
\* field is null or absent in the row; every non-null value, the integer 0
\* of validity and verification included, is transmitted as that value,
\* in the column order time, sampling_point_id, pollutant_code, value,
\* unit, aggregation_type, validity, verification, data_capture,
\* result_time, observation_id.
C30_NullSentinelIffNull ==
    wire.pc # "idle" =>
        /\ Len(wire.line) = Len(CopyColumns)
        /\ \A name \in OptionalColumns :
              LET field == wire.line[ColumnAt(name)]
                  x == RowValue(wire.m, name)
              IN  /\ field = NullSentinel <=> x = "None"
                  /\ x # "None" => field = x

====
